---- MODULE Spec2Model ----
(***************************************************************************)
(* A model of wvu::ShaderProgram (src/shader_program.cc) together with the *)
(* fixtures of its unit tests (src/assignment_tests.cc), and of the        *)
(* example program that uses it (main of src/draw_triangle.cc).            *)
(*                                                                         *)
(* The state is one ShaderProgram instance, the caller's error log, and    *)
(* observation variables (the last operation, its return value, the calls  *)
(* made to the compile / link / release adapters).                         *)
(***************************************************************************)
EXTENDS Integers, Sequences, FiniteSets

VARIABLES
    vertex_shader_src_,    \* std::string member: source of the vertex stage
    fragment_shader_src_,  \* std::string member: source of the fragment stage
    vertex_shader_,        \* GLuint member: handle of the compiled vertex stage
    fragment_shader_,      \* GLuint member: handle of the compiled fragment stage
    shader_program_id_,    \* GLuint member: handle of the linked program
    created_,              \* bool member
    error_info_log,        \* the caller's std::string, passed by pointer
    ret,                   \* return value of the last operation
    op,                    \* name of the last operation
    arg,                   \* its text or path argument ("" when it has none)
    old_src,               \* what a load found in the source it writes
    calls,                 \* adapter calls made so far (observation)
    fresh,                 \* no Create / Build* / LinkProgram was called yet
    create_calls,          \* Create calls so far, counted up to MaxCreates
    create_succeeded,      \* some Create call has returned true
    live,                  \* handles allocated by the driver and not deleted
    last_vertex_load,      \* text of the last successful vertex load (observation)
    last_fragment_load,    \* text of the last successful fragment load (observation)
    pc,                    \* main: the statement to execute next ("none": no main)
    exit_code,             \* main: the value returned, once pc = "returned"
    viewport,              \* main: the dimensions given to glViewport
    id_seen,               \* main: what the test of shader_program_id() found
    use_calls,             \* main: calls of Use(), counted up to MaxFrames
    out                    \* main: what was written to std::cout and std::cerr

main_vars == <<pc, exit_code, viewport, id_seen, use_calls, out>>

inst_vars == <<vertex_shader_src_, fragment_shader_src_, vertex_shader_,
          fragment_shader_, shader_program_id_, created_, error_info_log,
          ret, op, arg, old_src, calls, fresh, create_calls, create_succeeded,
          live, last_vertex_load, last_fragment_load>>

vars == <<inst_vars, main_vars>>

fields == <<vertex_shader_src_, fragment_shader_src_, vertex_shader_,
            fragment_shader_, shader_program_id_, created_>>

-----------------------------------------------------------------------------
(* Bounds of the model. *)

\* Longest recorded sequence of adapter calls.
MaxCalls == 4

\* Create calls are counted up to this number.
MaxCreates == 2

\* Calls of Use() are counted up to this number.
MaxFrames == 2

\* The frame buffer is between 1 and MaxScale times as wide, and as high,
\* as the window that was asked for.
MaxScale == 5

-----------------------------------------------------------------------------
(* The texts of the test fixtures.  A text is an opaque value: the code     *)
(* copies a text and never looks into it.                                   *)

vertex_shader_src == "vertex_shader_src"
fragment_shader_src == "fragment_shader_src"
bad_vertex_shader == "vertex_shader_src + asdasdjqw;rjdekl"
bad_fragment_shader == "vertex_shader_src + asdasdjqw;jdekl"

\* The texts a caller passes to the loaders; "" is the empty string.
SourceTexts ==
    {"", vertex_shader_src, fragment_shader_src,
     bad_vertex_shader, bad_fragment_shader}

\* What the tests expect of the GLSL compiler and linker: the pair of the
\* valid fixtures compiles and links.
CompilesAndLinks(vsrc, fsrc) ==
    vsrc = vertex_shader_src /\ fsrc = fragment_shader_src

\* What the tests expect of the GLSL compiler: a fixture with garbage
\* appended does not compile.
FailsToCompile(src) == src \in {bad_vertex_shader, bad_fragment_shader}

\* Enumeration ShaderType.
VERTEX == 0
FRAGMENT == 1

-----------------------------------------------------------------------------
(* The file system seen by std::ifstream: the paths that can be opened and  *)
(* what they hold.  Every other path cannot be opened.                      *)

Files ==
    [p \in {"shader.vert", "shader.frag", "broken.vert"} |->
        CASE p = "shader.vert" -> vertex_shader_src
          [] p = "shader.frag" -> fragment_shader_src
          [] p = "broken.vert" -> bad_vertex_shader]

\* The paths a caller passes to the loaders.
Paths == DOMAIN Files \cup {"missing.glsl"}

is_open(filepath) == filepath \in DOMAIN Files

-----------------------------------------------------------------------------
(* The free functions of the anonymous namespace.  *)

\* CompileShader: the body is "return 0": no call into the driver, and
\* info_log is not written.
CompileShader(shader_src, shader_type, info_log) ==
    [id |-> 0, info_log |-> info_log]

\* A faulty variant of CreateShaderProgram: the id of a program object is
\* returned although no link was found to succeed.
CreateShaderProgram_returns_handle(vertex_shader, fragment_shader, info_log) ==
    [id |-> 1, info_log |-> info_log]

\* CreateShaderProgram: the body is "return 0"; info_log is not written.
CreateShaderProgram(vertex_shader, fragment_shader, info_log) ==
    [id |-> 0, info_log |-> info_log]

\* ReleaseShaderResources: the body is empty, so no handle is deleted and
\* the handles the driver holds stay as they are.
ReleaseShaderResources(vertex_shader, fragmnet_shader, handles) == handles

\* The handle a successful adapter call leaves allocated on the driver: the
\* adapters return the id of the object they created, or zero.
Allocated(kind, id) == IF id # 0 THEN {[kind |-> kind, id |-> id]} ELSE {}

\* One more call, counted up to MaxCreates.
Counted(n) == IF n < MaxCreates THEN n + 1 ELSE n

\* A faulty variant of LoadShaderFromFile: the sink is cleared before the
\* stream is tested.
LoadShaderFromFile_clears_first(filepath, loaded_file) ==
    IF ~is_open(filepath)
    THEN [ret |-> FALSE, loaded_file |-> ""]
    ELSE [ret |-> TRUE, loaded_file |-> Files[filepath]]

\* LoadShaderFromFile: the sink is always the address of a member, so the
\* null test of the sink never fires.
LoadShaderFromFile(filepath, loaded_file) ==
    IF ~is_open(filepath)
    THEN [ret |-> FALSE, loaded_file |-> loaded_file]
    ELSE [ret |-> TRUE, loaded_file |-> Files[filepath]]

-----------------------------------------------------------------------------
(* The state after construction: empty sources, zero handles, not created. *)

\* main has not started.
NoMain ==
    /\ pc = "none"
    /\ exit_code = 0
    /\ viewport = <<0, 0>>
    /\ id_seen = "unread"
    /\ use_calls = 0
    /\ out = <<>>

Init ==
    /\ NoMain
    /\ vertex_shader_src_ = ""
    /\ fragment_shader_src_ = ""
    /\ vertex_shader_ = 0
    /\ fragment_shader_ = 0
    /\ shader_program_id_ = 0
    /\ created_ = FALSE
    /\ error_info_log \in {<<>>, <<"text of the caller">>}
    /\ ret = TRUE
    /\ op = "constructed"
    /\ arg = ""
    /\ old_src = ""
    /\ calls = <<>>
    /\ fresh = TRUE
    /\ create_calls = 0
    /\ create_succeeded = FALSE
    /\ live = {}
    /\ last_vertex_load = ""
    /\ last_fragment_load = ""

-----------------------------------------------------------------------------
(* The member functions. *)

\* A faulty variant of LoadVertexShaderFromString: the text lands in the
\* other stage.
LoadVertexShaderFromString_wrong_stage(vertex_shader_source) ==
    /\ fragment_shader_src_' = vertex_shader_source
    /\ ret' = TRUE
    /\ op' = "LoadVertexShaderFromString"
    /\ arg' = vertex_shader_source
    /\ old_src' = vertex_shader_src_
    /\ last_vertex_load' = vertex_shader_source
    /\ UNCHANGED <<vertex_shader_src_, vertex_shader_, fragment_shader_,
                   shader_program_id_, created_, error_info_log, calls,
                   fresh, create_calls, create_succeeded, live,
                   last_fragment_load>>

LoadVertexShaderFromString(vertex_shader_source) ==
    /\ vertex_shader_src_' = vertex_shader_source
    /\ ret' = TRUE
    /\ op' = "LoadVertexShaderFromString"
    /\ arg' = vertex_shader_source
    /\ old_src' = vertex_shader_src_
    /\ last_vertex_load' = vertex_shader_source
    /\ UNCHANGED <<fragment_shader_src_, vertex_shader_, fragment_shader_,
                   shader_program_id_, created_, error_info_log, calls,
                   fresh, create_calls, create_succeeded, live,
                   last_fragment_load>>

\* A faulty variant of LoadFragmentShaderFromString: the text is compiled
\* as soon as it is loaded.
LoadFragmentShaderFromString_compiles_eagerly(fragment_shader_source) ==
    /\ fragment_shader_src_' = fragment_shader_source
    /\ ret' = TRUE
    /\ op' = "LoadFragmentShaderFromString"
    /\ arg' = fragment_shader_source
    /\ old_src' = fragment_shader_src_
    /\ last_fragment_load' = fragment_shader_source
    /\ calls' = IF Len(calls) < MaxCalls
                THEN Append(calls, [fn |-> "CompileShader", type |-> FRAGMENT,
                                    result |-> 0])
                ELSE calls
    /\ UNCHANGED <<vertex_shader_src_, vertex_shader_, fragment_shader_,
                   shader_program_id_, created_, error_info_log,
                   fresh, create_calls, create_succeeded, live,
                   last_vertex_load>>

LoadFragmentShaderFromString(fragment_shader_source) ==
    /\ fragment_shader_src_' = fragment_shader_source
    /\ ret' = TRUE
    /\ op' = "LoadFragmentShaderFromString"
    /\ arg' = fragment_shader_source
    /\ old_src' = fragment_shader_src_
    /\ last_fragment_load' = fragment_shader_source
    /\ UNCHANGED <<vertex_shader_src_, vertex_shader_, fragment_shader_,
                   shader_program_id_, created_, error_info_log, calls,
                   fresh, create_calls, create_succeeded, live,
                   last_vertex_load>>

LoadVertexShaderFromFile(vertex_shader_path) ==
    LET r == LoadShaderFromFile(vertex_shader_path, vertex_shader_src_) IN
    /\ vertex_shader_src_' = r.loaded_file
    /\ ret' = r.ret
    /\ op' = "LoadVertexShaderFromFile"
    /\ arg' = vertex_shader_path
    /\ old_src' = vertex_shader_src_
    /\ last_vertex_load' =
          IF r.ret THEN Files[vertex_shader_path] ELSE last_vertex_load
    /\ UNCHANGED <<fragment_shader_src_, vertex_shader_, fragment_shader_,
                   shader_program_id_, created_, error_info_log, calls,
                   fresh, create_calls, create_succeeded, live,
                   last_fragment_load>>

LoadFragmentShaderFromFile(fragment_shader_path) ==
    LET r == LoadShaderFromFile(fragment_shader_path, fragment_shader_src_) IN
    /\ fragment_shader_src_' = r.loaded_file
    /\ ret' = r.ret
    /\ op' = "LoadFragmentShaderFromFile"
    /\ arg' = fragment_shader_path
    /\ old_src' = fragment_shader_src_
    /\ last_fragment_load' =
          IF r.ret THEN Files[fragment_shader_path] ELSE last_fragment_load
    /\ UNCHANGED <<vertex_shader_src_, vertex_shader_, fragment_shader_,
                   shader_program_id_, created_, error_info_log, calls,
                   fresh, create_calls, create_succeeded, live,
                   last_vertex_load>>

\* A faulty variant of Create: a program object is allocated and stored
\* before the flag is tested.
Create_stores_partial_handle ==
    /\ shader_program_id_' = 1
    /\ ret' = (IF created_ THEN TRUE ELSE FALSE)
    /\ op' = "Create"
    /\ arg' = ""
    /\ old_src' = ""
    /\ fresh' = FALSE
    /\ create_calls' = Counted(create_calls)
    /\ create_succeeded' = (create_succeeded \/ ret')
    /\ UNCHANGED <<vertex_shader_src_, fragment_shader_src_, vertex_shader_,
                   fragment_shader_, created_, error_info_log, calls, live,
                   last_vertex_load, last_fragment_load>>

\* A faulty variant of Create: the flag is set although nothing was built.
Create_sets_flag ==
    /\ created_' = TRUE
    /\ ret' = TRUE
    /\ op' = "Create"
    /\ arg' = ""
    /\ old_src' = ""
    /\ fresh' = FALSE
    /\ create_calls' = Counted(create_calls)
    /\ create_succeeded' = (create_succeeded \/ ret')
    /\ UNCHANGED <<vertex_shader_src_, fragment_shader_src_, vertex_shader_,
                   fragment_shader_, shader_program_id_, error_info_log, calls,
                   live,
                   last_vertex_load, last_fragment_load>>

\* A faulty variant of Create: the vertex stage is compiled before the
\* flag is returned.
Create_builds ==
    /\ ret' = (IF created_ THEN TRUE ELSE FALSE)
    /\ op' = "Create"
    /\ arg' = ""
    /\ old_src' = ""
    /\ fresh' = FALSE
    /\ create_calls' = Counted(create_calls)
    /\ create_succeeded' = (create_succeeded \/ ret')
    /\ calls' = IF Len(calls) < MaxCalls
                THEN Append(calls, [fn |-> "CompileShader", type |-> VERTEX,
                                    result |-> 0])
                ELSE calls
    /\ UNCHANGED <<fields, error_info_log, live,
                   last_vertex_load, last_fragment_load>>

\* Create: returns true when created_ is set and false otherwise; nothing
\* else is read or written.
Create ==
    /\ ret' = (IF created_ THEN TRUE ELSE FALSE)
    /\ op' = "Create"
    /\ arg' = ""
    /\ old_src' = ""
    /\ fresh' = FALSE
    /\ create_calls' = Counted(create_calls)
    /\ create_succeeded' = (create_succeeded \/ ret')
    /\ UNCHANGED <<fields, error_info_log, calls, live,
                   last_vertex_load, last_fragment_load>>

\* A faulty variant of BuildVertexShader: the member receives the truth
\* value of the comparison with zero instead of the handle.
BuildVertexShader_stores_flag ==
    LET r == CompileShader(vertex_shader_src_, VERTEX, error_info_log) IN
    /\ Len(calls) + 1 <= MaxCalls
    /\ vertex_shader_' = (IF r.id = 0 THEN 1 ELSE 0)
    /\ error_info_log' = r.info_log
    /\ ret' = (vertex_shader_' # 0)
    /\ op' = "BuildVertexShader"
    /\ arg' = ""
    /\ old_src' = ""
    /\ calls' = Append(calls, [fn |-> "CompileShader", type |-> VERTEX,
                                result |-> r.id])
    /\ live' = live \cup Allocated("shader", r.id)
    /\ fresh' = FALSE
    /\ UNCHANGED <<vertex_shader_src_, fragment_shader_src_, fragment_shader_,
                   shader_program_id_, created_, create_calls, create_succeeded,
                   last_vertex_load, last_fragment_load>>

BuildVertexShader ==
    LET r == CompileShader(vertex_shader_src_, VERTEX, error_info_log) IN
    /\ Len(calls) + 1 <= MaxCalls
    /\ vertex_shader_' = r.id
    /\ error_info_log' = r.info_log
    /\ ret' = (r.id # 0)
    /\ op' = "BuildVertexShader"
    /\ arg' = ""
    /\ old_src' = ""
    /\ calls' = Append(calls, [fn |-> "CompileShader", type |-> VERTEX,
                                result |-> r.id])
    /\ live' = live \cup Allocated("shader", r.id)
    /\ fresh' = FALSE
    /\ UNCHANGED <<vertex_shader_src_, fragment_shader_src_, fragment_shader_,
                   shader_program_id_, created_, create_calls, create_succeeded,
                   last_vertex_load, last_fragment_load>>

BuildFragmentShader ==
    LET r == CompileShader(fragment_shader_src_, FRAGMENT, error_info_log) IN
    /\ Len(calls) + 1 <= MaxCalls
    /\ fragment_shader_' = r.id
    /\ error_info_log' = r.info_log
    /\ ret' = (r.id # 0)
    /\ op' = "BuildFragmentShader"
    /\ arg' = ""
    /\ old_src' = ""
    /\ calls' = Append(calls, [fn |-> "CompileShader", type |-> FRAGMENT,
                                result |-> r.id])
    /\ live' = live \cup Allocated("shader", r.id)
    /\ fresh' = FALSE
    /\ UNCHANGED <<vertex_shader_src_, fragment_shader_src_, vertex_shader_,
                   shader_program_id_, created_, create_calls, create_succeeded,
                   last_vertex_load, last_fragment_load>>

\* A faulty variant of LinkProgram: the stage handles are released only
\* when the link succeeded.
LinkProgram_skips_release_on_failure ==
    LET r == CreateShaderProgram(vertex_shader_, fragment_shader_,
                                 error_info_log)
        link == [fn |-> "CreateShaderProgram",
                 vertex_shader |-> vertex_shader_,
                 fragment_shader |-> fragment_shader_,
                 result |-> r.id]
        release == [fn |-> "ReleaseShaderResources",
                    vertex_shader |-> vertex_shader_,
                    fragment_shader |-> fragment_shader_] IN
    /\ Len(calls) + 2 <= MaxCalls
    /\ shader_program_id_' = r.id
    /\ error_info_log' = r.info_log
    /\ ret' = (r.id # 0)
    /\ op' = "LinkProgram"
    /\ arg' = ""
    /\ old_src' = ""
    /\ calls' = IF r.id # 0 THEN calls \o <<link, release>>
                ELSE Append(calls, link)
    /\ live' = IF r.id # 0
               THEN ReleaseShaderResources(vertex_shader_, fragment_shader_,
                        live \cup Allocated("program", r.id))
               ELSE live
    /\ fresh' = FALSE
    /\ UNCHANGED <<vertex_shader_src_, fragment_shader_src_, vertex_shader_,
                   fragment_shader_, created_, create_calls, create_succeeded,
                   last_vertex_load, last_fragment_load>>

\* LinkProgram: ReleaseShaderResources has an empty body, so the call is
\* recorded and changes nothing.
LinkProgram ==
    LET r == CreateShaderProgram(vertex_shader_, fragment_shader_,
                                 error_info_log) IN
    /\ Len(calls) + 2 <= MaxCalls
    /\ shader_program_id_' = r.id
    /\ error_info_log' = r.info_log
    /\ ret' = (r.id # 0)
    /\ op' = "LinkProgram"
    /\ arg' = ""
    /\ old_src' = ""
    /\ calls' = calls \o
          <<[fn |-> "CreateShaderProgram",
             vertex_shader |-> vertex_shader_,
             fragment_shader |-> fragment_shader_,
             result |-> r.id],
            [fn |-> "ReleaseShaderResources",
             vertex_shader |-> vertex_shader_,
             fragment_shader |-> fragment_shader_]>>
    /\ live' = ReleaseShaderResources(vertex_shader_, fragment_shader_,
                                      live \cup Allocated("program", r.id))
    /\ fresh' = FALSE
    /\ UNCHANGED <<vertex_shader_src_, fragment_shader_src_, vertex_shader_,
                   fragment_shader_, created_, create_calls, create_succeeded,
                   last_vertex_load, last_fragment_load>>

\* The member functions are called in any order; no main runs.
Next ==
    \/ \E s \in SourceTexts :
          LoadVertexShaderFromString(s) /\ UNCHANGED main_vars
    \/ \E s \in SourceTexts :
          LoadFragmentShaderFromString(s) /\ UNCHANGED main_vars
    \/ \E p \in Paths :
          LoadVertexShaderFromFile(p) /\ UNCHANGED main_vars
    \/ \E p \in Paths :
          LoadFragmentShaderFromFile(p) /\ UNCHANGED main_vars
    \/ Create /\ UNCHANGED main_vars
    \/ BuildVertexShader /\ UNCHANGED main_vars
    \/ BuildFragmentShader /\ UNCHANGED main_vars
    \/ LinkProgram /\ UNCHANGED main_vars

Spec == Init /\ [][Next]_vars

-----------------------------------------------------------------------------
(* Names of the operations, by kind. *)

StringLoads == {"LoadVertexShaderFromString", "LoadFragmentShaderFromString"}
FileLoads == {"LoadVertexShaderFromFile", "LoadFragmentShaderFromFile"}
VertexLoads == {"LoadVertexShaderFromString", "LoadVertexShaderFromFile"}
FragmentLoads == {"LoadFragmentShaderFromString", "LoadFragmentShaderFromFile"}
Loads == StringLoads \cup FileLoads

Called(fn) == \E i \in 1..Len(calls) : calls[i].fn = fn

-----------------------------------------------------------------------------
(* C1 .. C10 *)

\* C1: on a fresh instance holding a source pair that compiles and links,
\* with an empty error log, Create returns success, the program id is
\* greater than 0 afterwards and the error log is still empty.
C1_CreateSucceedsOnValidSources ==
    [][(/\ fresh
        /\ op' = "Create"
        /\ CompilesAndLinks(vertex_shader_src_, fragment_shader_src_)
        /\ error_info_log = <<>>)
       => (/\ ret' = TRUE
           /\ shader_program_id_' > 0
           /\ error_info_log' = <<>>)]_vars

\* C2: when the vertex source or the fragment source does not compile,
\* Create returns failure and the caller's error log is not empty after
\* the call.
C2_CreateFailsAndLogsOnCompileFailure ==
    (/\ op = "Create"
     /\ \/ FailsToCompile(vertex_shader_src_)
        \/ FailsToCompile(fragment_shader_src_))
    => (ret = FALSE /\ error_info_log # <<>>)

C4_FailedCreateLogsAndKeepsHandle ==
    (/\ op = "Create"
     /\ ret = FALSE
     /\ vertex_shader_src_ = bad_vertex_shader
     /\ fragment_shader_src_ = bad_fragment_shader)
    => (Len(error_info_log) > 0 /\ shader_program_id_ > 0)

C8_UnopenableFileLeavesSources ==
    [][(op' \in FileLoads /\ ~is_open(arg'))
       => (/\ ret' = FALSE
           /\ vertex_shader_src_' = vertex_shader_src_
           /\ fragment_shader_src_' = fragment_shader_src_)]_vars

\* C8, its case: a load from a path that cannot be opened has failed on a
\* stage that held a loaded source.
C8_Witness ==
    /\ op \in FileLoads
    /\ ~is_open(arg)
    /\ ret = FALSE
    /\ old_src # ""
    /\ vertex_shader_src_ # ""
    /\ fragment_shader_src_ # ""

\* C9: before creation a load from text returns success and stores the
\* text as it is; the source of a stage is always the text of the last
\* successful load of that stage.
C9_LastSuccessfulLoadWins ==
    /\ (op \in StringLoads /\ ~created_) => ret = TRUE
    /\ (op = "LoadVertexShaderFromString" /\ ~created_)
          => vertex_shader_src_ = arg
    /\ (op = "LoadFragmentShaderFromString" /\ ~created_)
          => fragment_shader_src_ = arg
    /\ vertex_shader_src_ = last_vertex_load
    /\ fragment_shader_src_ = last_fragment_load

\* C9, its case: a load from text has replaced a different, non-empty
\* source of the vertex stage.
C9_Witness ==
    /\ op = "LoadVertexShaderFromString"
    /\ ret = TRUE
    /\ old_src # ""
    /\ old_src # arg
    /\ arg # ""
    /\ vertex_shader_src_ = arg

\* C10: a load changes at most the source of its own stage: the source of
\* the other stage, both stage handles, the program id and created_ stay
\* as they were, and no adapter (compile, link, release) is called.
C10_LoadFrame ==
    [][(op' \in Loads)
       => (/\ op' \in VertexLoads
                => fragment_shader_src_' = fragment_shader_src_
           /\ op' \in FragmentLoads
                => vertex_shader_src_' = vertex_shader_src_
           /\ vertex_shader_' = vertex_shader_
           /\ fragment_shader_' = fragment_shader_
           /\ shader_program_id_' = shader_program_id_
           /\ created_' = created_
           /\ calls' = calls)]_vars

\* C10, its case: a load has changed the source of its stage on an
\* instance on which the compile and link steps had run.
C10_Witness ==
    /\ op \in StringLoads
    /\ ret = TRUE
    /\ old_src # arg
    /\ Called("CompileShader")
    /\ Called("ReleaseShaderResources")
    /\ fragment_shader_src_ # ""
    /\ vertex_shader_src_ # ""

-----------------------------------------------------------------------------
(* C11 .. C20 *)

BuildSteps == {"BuildVertexShader", "BuildFragmentShader", "LinkProgram"}

IsCompile(call, type) == call.fn = "CompileShader" /\ call.type = type

Prefix(s, t) == Len(s) <= Len(t) /\ SubSeq(t, 1, Len(s)) = s

\* The calls of CreateShaderProgram that returned a program handle.
ProgramsAllocated ==
    {i \in 1..Len(calls) :
        calls[i].fn = "CreateShaderProgram" /\ calls[i].result # 0}

\* The program handles the driver holds.
LivePrograms == {h \in live : h.kind = "program"}

\* C11: Create on an instance that is not created compiles the vertex
\* stage first, compiles the fragment stage only when the vertex stage
\* compiled, links only when both compiled, attempts nothing after the
\* first failure, and leaves created_ false when it fails.
C11_CreateStepsInOrder ==
    [][(op' = "Create" /\ ~created_)
       => LET n == Len(calls)
              new == SubSeq(calls', n + 1, Len(calls')) IN
          /\ Len(new) >= 1
          /\ IsCompile(new[1], VERTEX)
          /\ new[1].result = 0 => Len(new) = 1
          /\ new[1].result # 0 =>
                /\ Len(new) >= 2
                /\ IsCompile(new[2], FRAGMENT)
                /\ new[2].result = 0 => Len(new) = 2
                /\ new[2].result # 0 =>
                      /\ Len(new) >= 3
                      /\ new[3].fn = "CreateShaderProgram"
          /\ ret' = FALSE => created_' = FALSE]_vars

\* C13: the error log is only appended to; a compile or link step that
\* fails appends its diagnostic after what the log held, and a Create that
\* succeeds leaves the log as it was.
C13_LogOnlyAppended ==
    [][/\ Prefix(error_info_log, error_info_log')
       /\ (op' \in BuildSteps /\ ret' = FALSE)
             => Len(error_info_log') > Len(error_info_log)
       /\ (op' = "Create" /\ ret' = TRUE)
             => error_info_log' = error_info_log]_vars

\* C14: a Create called right after a failed Create starts again with a
\* compile of the vertex stage, succeeds when the sources compile and
\* link, and when it fails leaves no nonzero program id stored and no
\* program handle held by the driver.
C14_RetryAfterFailedCreate ==
    [][(op = "Create" /\ ret = FALSE /\ op' = "Create")
       => /\ Len(calls') > Len(calls)
          /\ IsCompile(calls'[Len(calls) + 1], VERTEX)
          /\ CompilesAndLinks(vertex_shader_src_, fragment_shader_src_)
                => ret' = TRUE
          /\ ret' = FALSE
                => (shader_program_id_' = 0 /\ LivePrograms' = {})]_vars

-----------------------------------------------------------------------------
(* The example program: main of draw_triangle.cc.  Each statement of main  *)
(* is one step; pc names the statement to execute next.  What the window   *)
(* system answers (whether a library initialises, the size of the frame    *)
(* buffer, whether the window should close) is chosen freely.              *)

kWindowWidth == 640
kWindowHeight == 480

\* What glfwGetFramebufferSize may store in width and height.
FramebufferSizes ==
    {<<kWindowWidth * i, kWindowHeight * j>> : i, j \in 1..MaxScale}

\* return value;
Return(value) ==
    /\ pc' = "returned"
    /\ exit_code' = value

\* if (!glfwInit()) return -1;
main_glfwInit ==
    /\ \E ok \in BOOLEAN :
          IF ~ok THEN Return(-1)
          ELSE pc' = "glfwCreateWindow" /\ UNCHANGED exit_code
    /\ UNCHANGED <<inst_vars, viewport, id_seen, use_calls, out>>

\* The error callback, the window hints, glfwCreateWindow and the test of
\* the window.
main_glfwCreateWindow ==
    /\ \E window \in {"nullptr", "window"} :
          IF window = "nullptr" THEN Return(-1)
          ELSE pc' = "glewInit" /\ UNCHANGED exit_code
    /\ UNCHANGED <<inst_vars, viewport, id_seen, use_calls, out>>

\* The context, the key callback, glewInit and its test.
main_glewInit ==
    /\ \E ok \in BOOLEAN :
          IF ~ok
          THEN /\ out' = Append(out, [stream |-> "cerr",
                     text |-> <<"Glew did not initialize properly!">>])
               /\ Return(-1)
          ELSE pc' = "ConfigureViewPort" /\ UNCHANGED <<exit_code, out>>
    /\ UNCHANGED <<inst_vars, viewport, id_seen, use_calls>>

ConfigureViewPort ==
    /\ \E size \in FramebufferSizes : viewport' = size
    /\ pc' = "LoadVertexShaderFromString"
    /\ UNCHANGED <<inst_vars, exit_code, id_seen, use_calls, out>>

\* wvu::ShaderProgram shader_program;
\* shader_program.LoadVertexShaderFromString(vertex_shader_src);
main_LoadVertexShaderFromString ==
    /\ LoadVertexShaderFromString(vertex_shader_src)
    /\ pc' = "LoadFragmentShaderFromString"
    /\ UNCHANGED <<exit_code, viewport, id_seen, use_calls, out>>

\* shader_program.LoadFragmentShaderFromString(fragment_shader_src);
main_LoadFragmentShaderFromString ==
    /\ LoadFragmentShaderFromString(fragment_shader_src)
    /\ pc' = "Create"
    /\ UNCHANGED <<exit_code, viewport, id_seen, use_calls, out>>

\* if (!shader_program.Create(&error_info_log)) std::cout << "ERROR: " ...
main_Create ==
    /\ Create
    /\ out' = IF ~ret'
              THEN Append(out, [stream |-> "cout",
                                text |-> <<"ERROR: ">> \o error_info_log'])
              ELSE out
    /\ pc' = "shader_program_id"
    /\ UNCHANGED <<exit_code, viewport, id_seen, use_calls>>

\* A faulty variant of main_shader_program_id: the test of the program id
\* is missing.
main_shader_program_id_not_tested ==
    /\ pc' = "SetVertexArrayObject"
    /\ UNCHANGED <<inst_vars, exit_code, viewport, id_seen, use_calls, out>>

\* if (!shader_program.shader_program_id()) { std::cerr << ...; return -1; }
main_shader_program_id ==
    /\ IF shader_program_id_ = 0
       THEN /\ id_seen' = "zero"
            /\ out' = Append(out, [stream |-> "cerr",
                  text |-> <<"ERROR: Could not create a shader program.">>])
            /\ Return(-1)
       ELSE /\ id_seen' = "nonzero"
            /\ pc' = "SetVertexArrayObject"
            /\ UNCHANGED <<exit_code, out>>
    /\ UNCHANGED <<inst_vars, viewport, use_calls>>

main_SetVertexArrayObject ==
    /\ pc' = "glfwWindowShouldClose"
    /\ UNCHANGED <<inst_vars, exit_code, viewport, id_seen, use_calls, out>>

\* while (!glfwWindowShouldClose(window))
main_glfwWindowShouldClose ==
    /\ \E close \in BOOLEAN :
          pc' = IF close THEN "cleanup" ELSE "RenderScene"
    /\ UNCHANGED <<inst_vars, exit_code, viewport, id_seen, use_calls, out>>

\* ShaderProgram::Use, called by RenderScene.
Use ==
    use_calls' = IF use_calls < MaxFrames THEN use_calls + 1 ELSE use_calls

\* The body of the loop: RenderScene, glfwSwapBuffers, glfwPollEvents.
RenderScene ==
    /\ Use
    /\ pc' = "glfwWindowShouldClose"
    /\ UNCHANGED <<inst_vars, exit_code, viewport, id_seen, out>>

\* The cleaning up tasks and return 0.
main_cleanup ==
    /\ Return(0)
    /\ UNCHANGED <<inst_vars, viewport, id_seen, use_calls, out>>

main ==
    CASE pc = "glfwInit" -> main_glfwInit
      [] pc = "glfwCreateWindow" -> main_glfwCreateWindow
      [] pc = "glewInit" -> main_glewInit
      [] pc = "ConfigureViewPort" -> ConfigureViewPort
      [] pc = "LoadVertexShaderFromString" -> main_LoadVertexShaderFromString
      [] pc = "LoadFragmentShaderFromString" ->
            main_LoadFragmentShaderFromString
      [] pc = "Create" -> main_Create
      [] pc = "shader_program_id" -> main_shader_program_id
      [] pc = "SetVertexArrayObject" -> main_SetVertexArrayObject
      [] pc = "glfwWindowShouldClose" -> main_glfwWindowShouldClose
      [] pc = "RenderScene" -> RenderScene
      [] pc = "cleanup" -> main_cleanup
      [] OTHER -> FALSE

\* The state when main is entered: the instance as constructed, and an
\* empty error_info_log.
MainInit ==
    /\ vertex_shader_src_ = ""
    /\ fragment_shader_src_ = ""
    /\ vertex_shader_ = 0
    /\ fragment_shader_ = 0
    /\ shader_program_id_ = 0
    /\ created_ = FALSE
    /\ error_info_log = <<>>
    /\ ret = TRUE
    /\ op = "constructed"
    /\ arg = ""
    /\ old_src = ""
    /\ calls = <<>>
    /\ fresh = TRUE
    /\ create_calls = 0
    /\ create_succeeded = FALSE
    /\ live = {}
    /\ last_vertex_load = ""
    /\ last_fragment_load = ""
    /\ pc = "glfwInit"
    /\ exit_code = 0
    /\ viewport = <<0, 0>>
    /\ id_seen = "unread"
    /\ use_calls = 0
    /\ out = <<>>

MainNext == main

MainSpec == MainInit /\ [][MainNext]_vars

-----------------------------------------------------------------------------
(* C21 *)

\* C21: in main, Use() is called only after shader_program_id() was seen
\* to be nonzero; when Create has failed and the id is 0, main reports the
\* error and returns -1 without a call of Use().
C21_UseOnlyAfterNonzeroId ==
    /\ use_calls > 0 => id_seen = "nonzero"
    /\ pc \in {"SetVertexArrayObject", "glfwWindowShouldClose",
               "RenderScene", "cleanup"} => id_seen = "nonzero"
    /\ id_seen = "zero" =>
          /\ pc = "returned"
          /\ exit_code = -1
          /\ use_calls = 0
          /\ \E i \in 1..Len(out) :
                out[i] = [stream |-> "cerr",
                    text |-> <<"ERROR: Could not create a shader program.">>]

\* C21, its case: Create has failed in main, the id was found to be 0 and
\* main has returned -1.
C21_Witness ==
    /\ pc = "returned"
    /\ op = "Create"
    /\ ret = FALSE
    /\ shader_program_id_ = 0
    /\ id_seen = "zero"
    /\ exit_code = -1
    /\ use_calls = 0

====
